---------------------------- MODULE Spec2Model ----------------------------
(***************************************************************************)
(* HealthyWaters.py: upstream network tracing and catchment resolution.    *)
(*                                                                         *)
(* Geometry is discrete: the plane is a finite grid of cells, a polygon or *)
(* a line is the set of cells it covers or passes through, two features    *)
(* INTERSECT when they share a cell, and a dissolve is the union of the    *)
(* cell sets.  A feature class is the set of its rows (records); the       *)
(* fields src and seq of a catchment row stand for the row's identity: the *)
(* step that wrote it and, for a sub-catchment, the pass it comes from.    *)
(***************************************************************************)
EXTENDS Integers, Sequences, FiniteSets, TLC

(* number of input points in in_Points *)
NPts == 2

(***************************************************************************)
(* The input data: catchment layer, network edges, flow direction raster.  *)
(***************************************************************************)

(* in_Catchment: NHDPlusHR catchment polygons, keyed by NHDPlusID, tiled by *)
(* VPUID (HU4).  Cell 8 lies in no catchment.                               *)
Catchment ==
  { [NHDPlusID |-> 101, VPUID |-> "0208", cells |-> {1, 2, 3}],
    [NHDPlusID |-> 102, VPUID |-> "0208", cells |-> {4, 5}],
    [NHDPlusID |-> 103, VPUID |-> "0301", cells |-> {6, 7}],
    [NHDPlusID |-> 104, VPUID |-> "0301", cells |-> {9, 10}] }

(* NHDFlowline features of the hydro network.  shape lists the cells of the *)
(* line from its downstream end to its upstream end (one cell = one unit of *)
(* length); up holds the features that flow into its upstream end.  The     *)
(* catchment polygons come from a raster and the lines do not follow them   *)
(* exactly: line 2 crosses cell 3 of catchment 101 and line 6 crosses cell  *)
(* 6 of catchment 103 before they reach their own catchments.  Lines 2 and  *)
(* 3 carry the same NHDPlusID; line 5 (a canal) has no catchment.  Line 6   *)
(* runs on through cell 10, which the raster does not drain along it.       *)
NHDFlowline ==
  { [OBJECTID |-> 1, NHDPlusID |-> 101, shape |-> <<1, 2>>, up |-> {2, 3}],
    [OBJECTID |-> 2, NHDPlusID |-> 102, shape |-> <<3, 4>>, up |-> {}],
    [OBJECTID |-> 3, NHDPlusID |-> 102, shape |-> <<5>>,    up |-> {}],
    [OBJECTID |-> 4, NHDPlusID |-> 103, shape |-> <<7>>,    up |-> {5, 6}],
    [OBJECTID |-> 5, NHDPlusID |-> 105, shape |-> <<6>>,    up |-> {}],
    [OBJECTID |-> 6, NHDPlusID |-> 104, shape |-> <<6, 9, 10>>, up |-> {}] }

(* fdr: the cell each cell drains to; 0 where the flow leaves the raster.   *)
FlowDir == <<0, 1, 2, 3, 2, 7, 0, 0, 6, 0>>

(* distances to loop over (kms), in cell units *)
kms == <<2, 3>>

(* Where an input point may lie: site = <<flowline, position>> is the       *)
(* network location within snap_dist the point is snapped to (position      *)
(* Len(shape)+1 is the junction at the upstream end); site = <<0, 0>> when  *)
(* no flowline lies within snap_dist.  cells = the cells the point touches  *)
(* (two for a point on the common boundary of two catchments).  eps = 1     *)
(* when the point is snapped a negligible length below the upstream end of  *)
(* its flowline: the piece from the point to that end is deleted as a null  *)
(* geometry (RepairGeometry, line 414) and the lines above it start at that *)
(* negligible accumulated length, not at 0.                                 *)
Placements ==
  { [site |-> <<1, 1>>, cells |-> {1}, eps |-> 0],
    [site |-> <<1, 2>>, cells |-> {2}, eps |-> 0],
    [site |-> <<1, 3>>, cells |-> {3}, eps |-> 0],
    [site |-> <<1, 3>>, cells |-> {3}, eps |-> 1],
    [site |-> <<2, 1>>, cells |-> {3}, eps |-> 0],
    [site |-> <<2, 2>>, cells |-> {4}, eps |-> 0],
    [site |-> <<5, 1>>, cells |-> {6}, eps |-> 0],
    [site |-> <<4, 1>>, cells |-> {7}, eps |-> 0],
    [site |-> <<6, 1>>, cells |-> {6}, eps |-> 0],
    [site |-> <<0, 0>>, cells |-> {1}, eps |-> 0],
    [site |-> <<0, 0>>, cells |-> {3, 4}, eps |-> 0],
    [site |-> <<0, 0>>, cells |-> {8}, eps |-> 0] }

(* The attribute fields of in_Points a caller may name as in_Points_id,    *)
(* with their arcpy field type and their value on every row.  Numbers are  *)
(* written in tenths (10 = 1.0), so that km holds 1.1, 1.2, ...            *)
UserFields ==
  [site_no |-> [type |-> "Integer",      vals |-> [p \in 1..NPts |-> 10 * p]],
   grp     |-> [type |-> "Integer",      vals |-> [p \in 1..NPts |-> 10]],
   rank    |-> [type |-> "SmallInteger", vals |-> [p \in 1..NPts |-> 10 * p]],
   km      |-> [type |-> "Double",       vals |-> [p \in 1..NPts |-> 10 + p]],
   code    |-> [type |-> "String",       vals |-> [p \in 1..NPts |-> 10 * p]]]

VARIABLES
  in_Points,     \* the point feature class: OBJECTID -> placement
  get_SubCat,    \* GetNetworks_hw parameter
  in_Points_id,  \* GetNetworks_hw parameter ("" = None)
  nhdFlow,       \* whether NHDFlowline exists beside in_hydroNet
  in_Catchment_Fields, \* the attribute fields of in_Catchment
  Fields,        \* the attribute fields of in_Points: name -> type, values
  ptid_join,     \* name of the field holding the point id ("" = not set)
  ki,            \* index of the distance being processed in main's loop
  pc,            \* position in the program
  err,           \* the exception that ended the run ("" = none)
  lyrUpTrace,    \* break value of the saved service layer
  lyrFile,       \* whether the layer file lyrUpTrace exists
  Network,       \* whether the Network extension is checked out
  out_Lines_full,\* per distance: un-dissolved traced lines
  out_Lines,     \* per distance: lines dissolved by ptid_join
  catch_full,    \* per distance: out_CatchArea + '_full'
  out_CatchArea, \* per distance: catchments dissolved by ptid_join
  out_subCat,    \* '<in_Points>_subCatchArea'
  flow,          \* scratch: starting flowlines with seqID
  seqs,          \* scratch: list of sequence indices
  vpu,           \* scratch: list of VPUIDs to loop over
  vi, si,        \* loop positions in vpu and seqs
  wsrast,        \* scratch: the last watershed raster
  catSub,        \* scratch: the catSub_<vpuid>_<s> datasets
  ls_sub,        \* list of catSub datasets to merge
  log            \* messages printed

vars == <<in_Points, get_SubCat, Network, lyrFile, in_Points_id, nhdFlow, in_Catchment_Fields,
          Fields, ptid_join, ki, pc, err, lyrUpTrace, out_Lines_full,
          out_Lines, catch_full, out_CatchArea, out_subCat, flow, seqs, vpu,
          vi, si, wsrast, catSub, ls_sub, log>>

(***************************************************************************)
(* Helpers                                                                 *)
(***************************************************************************)
Min(a, b) == IF a < b THEN a ELSE b

Max(S) == CHOOSE x \in S : \A y \in S : y <= x

(* HelperPro.printMsg and the built-in print: an entry of the printed log. *)
(* ptids holds the point ids the text names: the messages of               *)
(* HealthyWaters.py name layers, fields, HU4s and groups, never a point.   *)
printMsg(msg) == [fn |-> "printMsg", msg |-> msg, ptids |-> {}]

pyprint(msg) == [fn |-> "print", msg |-> msg, ptids |-> {}]

Absent == [exists |-> FALSE, rows |-> {}]

Dataset(rows) == [exists |-> TRUE, rows |-> rows]

Flowline(e) == CHOOSE f \in NHDFlowline : f.OBJECTID = e

Points == DOMAIN in_Points

Located(p) == in_Points[p].site[1] # 0

(* Python int() of a number: truncation *)
int(v) == v \div 10

(* the id of point p: its value of the field ptid_join, as the facility    *)
(* Name carries it into the lines (lines 384, 423, 428)                    *)
PtId(p) == int(Fields[ptid_join].vals[p])

(* lines 361-362: the values of the field, as integers, are all different *)
ptidu(f) == {int(f.vals[p]) : p \in Points}

(* the field recalculated on every call, each time one higher *)
WithPtidJoin_Recalculated(flds) ==
  IF "OBJECTID_in_Points" \in DOMAIN flds
  THEN [flds EXCEPT !["OBJECTID_in_Points"].vals =
          [p \in Points |-> flds["OBJECTID_in_Points"].vals[p] + 10]]
  ELSE flds @@ ("OBJECTID_in_Points" :>
          [type |-> "Integer", vals |-> [p \in Points |-> 10 * p]])

(* lines 349-354: the field OBJECTID_in_Points, added and calculated from  *)
(* the OID when in_Points has no field of that name, else left as it is    *)
WithPtidJoin(flds) ==
  IF "OBJECTID_in_Points" \in DOMAIN flds
  THEN flds
  ELSE flds @@ ("OBJECTID_in_Points" :>
          [type |-> "Integer", vals |-> [p \in Points |-> 10 * p]])

(***************************************************************************)
(* Solve_na on the upstream service layer                                  *)
(***************************************************************************)

(* Lines of the service area reached from position i of flowline e with    *)
(* rem units of distance left, cum units already accumulated (the program  *)
(* reads of FromCumul_Length only whether it is 0).  A flowline is split   *)
(* where the break distance runs out.                                      *)
RECURSIVE ServiceAreaLines(_, _, _, _)
ServiceAreaLines(e, i, rem, cum) ==
  LET f    == Flowline(e)
      n    == Len(f.shape)
      take == Min(rem, n - i + 1)
      line == IF take > 0
              THEN {[SourceOID |-> e, catID |-> f.NHDPlusID,
                     FromCumul_Length |-> cum,
                     cells |-> {f.shape[j] : j \in i..(i + take - 1)}]}
              ELSE {}
  IN  line \cup
      IF rem - take > 0
      THEN UNION {ServiceAreaLines(u, 1, rem - take, cum + take) : u \in f.up}
      ELSE {}

(* the lines of the outermost ring only: those that end at the break value *)
upLines_OuterRing(up_Dist) ==
  UNION {{[ptid |-> PtId(p), SourceOID |-> l.SourceOID, catID |-> l.catID,
           FromCumul_Length |-> l.FromCumul_Length, cells |-> l.cells] :
            l \in {m \in ServiceAreaLines(in_Points[p].site[1], in_Points[p].site[2],
                                          up_Dist, in_Points[p].eps) :
                     m.FromCumul_Length + Cardinality(m.cells) >= up_Dist}} :
         p \in {q \in Points : Located(q)}}

(* upLines after the join of ptid_join (via FacilityID) and catID (via     *)
(* SourceOID): points that could not be located are skipped by the solve.  *)
upLines(up_Dist) ==
  UNION {{[ptid |-> PtId(p), SourceOID |-> l.SourceOID, catID |-> l.catID,
           FromCumul_Length |-> l.FromCumul_Length, cells |-> l.cells] :
            l \in ServiceAreaLines(in_Points[p].site[1], in_Points[p].site[2],
                                   up_Dist, in_Points[p].eps)} :
         p \in {q \in Points : Located(q)}}

(* the lines copied without the dissolve: one row per line *)
DissolveByPt_NoDissolve(rows) == {[ptid |-> r.ptid, cells |-> r.cells] : r \in rows}

(* Dissolve_management(rows, dissolve_field = ptid_join) *)
DissolveByPt(rows) ==
  {[ptid |-> p, cells |-> UNION {r.cells : r \in {x \in rows : x.ptid = p}}] :
     p \in {r.ptid : r \in rows}}

(***************************************************************************)
(* GetCatchments_hw: catchments by identity with the traced lines          *)
(***************************************************************************)

(* line 149: the distinct catID values of the traced lines *)
oids(in_Lines) == {l.catID : l \in in_Lines}

(* line 152: in_Catchment restricted by "catID IN (oids)" *)
cat_lyr(in_Lines) == {c \in Catchment : c.NHDPlusID \in oids(in_Lines)}

(* lines 161-164: SpatialJoin(cat_lyr, in_Lines), JOIN_ONE_TO_MANY,        *)
(* KEEP_COMMON, INTERSECT: one row per (catchment, line) pair that share a *)
(* cell; the line's catID arrives as catID_1                               *)
cat_sj(in_Lines) ==
  {[ptid |-> x[2].ptid, catID |-> x[1].NHDPlusID, catID_1 |-> x[2].catID,
    SourceOID |-> x[2].SourceOID, cells |-> x[1].cells] :
     x \in {y \in cat_lyr(in_Lines) \X in_Lines : y[1].cells \cap y[2].cells # {}}}

(* the layer over cat_sj made without its where clause *)
catch_full_lyr_NoQuery(sj) == sj

(* lines 167-168: the layer "catID = catID_1" over cat_sj *)
catch_full_lyr(sj) == {r \in sj : r.catID = r.catID_1}

(* Dissolve_management(rows, dissolve_field = [ptid_join, catID]) *)
DissolveByPtCat(rows, src) ==
  {[ptid |-> k[1], catID |-> k[2], src |-> src, seq |-> 0,
    cells |-> UNION {r.cells : r \in {x \in rows : x.ptid = k[1] /\ x.catID = k[2]}}] :
     k \in {<<r.ptid, r.catID>> : r \in rows}}

(* lines 147-170: out_CatchArea + '_full' *)
CoarseCatchments(in_Lines) ==
  DissolveByPtCat(catch_full_lyr(cat_sj(in_Lines)), "identity")

(***************************************************************************)
(* GetSubCatchments_hw                                                     *)
(***************************************************************************)

(* line 238: the 'starting' flowline of each network *)
StartLines(in_Lines) == {l \in in_Lines : l.FromCumul_Length = 0}

(* lines 246-247: count of starting lines per catID *)
nids(fl) ==
  {<<c, Cardinality({l \in fl : l.catID = c})>> : c \in {l.catID : l \in fl}}

(* line 248 *)
dupnid(fl) == {a[1] : a \in {b \in nids(fl) : b[2] > 1}}

(* The orders in which the update cursor may meet the rows of flow.  The   *)
(* facilities are loaded sorted by ptid_join (sort_field, line 386) and    *)
(* the solve writes the lines facility by facility; the order of the       *)
(* starting lines of one facility (two at most, at a junction) is the      *)
(* solver's: rev[p] tells whether those of p come in descending SourceOID. *)
Before(a, b, rev) ==
  \/ a.ptid < b.ptid
  \/ /\ a.ptid = b.ptid
     /\ IF rev[a.ptid] THEN a.SourceOID > b.SourceOID
                       ELSE a.SourceOID < b.SourceOID

RowOrders(fl) ==
  LET multi == {p \in {l.ptid : l \in fl} :
                  Cardinality({l \in fl : l.ptid = p}) > 1}
  IN  {[l \in fl |-> 1 + Cardinality({m \in fl :
          Before(m, l, [p \in {x.ptid : x \in fl} |-> p \in R])})] :
         R \in SUBSET multi}

(* seqID without the count of the duplicates: 1 on every row *)
WithSeqID_AllOne(fl, ord) ==
  {[ptid |-> l.ptid, SourceOID |-> l.SourceOID, catID |-> l.catID,
    cells |-> l.cells, seqID |-> 1] : l \in fl}

(* seqID counted from 0 within a duplicated catID *)
WithSeqID_FromZero(fl, ord) ==
  {[ptid |-> l.ptid, SourceOID |-> l.SourceOID, catID |-> l.catID,
    cells |-> l.cells,
    seqID |-> IF l.catID \in dupnid(fl)
              THEN Cardinality({m \in fl : m.catID = l.catID /\ ord[m] < ord[l]})
              ELSE 1] : l \in fl}

(* lines 251-263: seqID = running count within a duplicated catID, else 1  *)
WithSeqID(fl, ord) ==
  {[ptid |-> l.ptid, SourceOID |-> l.SourceOID, catID |-> l.catID,
    cells |-> l.cells,
    seqID |-> IF l.catID \in dupnid(fl)
              THEN Cardinality({m \in fl : m.catID = l.catID /\ ord[m] <= ord[l]})
              ELSE 1] : l \in fl}

(* lines 265-268: the rows of in_CatchArea selected pairwise by the        *)
(* (ptid_join, catID) of the starting lines                                *)
cat(in_CatchArea, fl) ==
  {r \in in_CatchArea : \E l \in fl : l.ptid = r.ptid /\ l.catID = r.catID}

(* VPUID of a row of in_CatchArea: that of the catchment it was built from *)
VPUIDof(r) == (CHOOSE c \in Catchment : c.NHDPlusID = r.catID).VPUID

(* line 269: subWatershed_mask, the selection dissolved by VPUID *)
subWatershed_mask(sel) ==
  {[VPUID |-> v, cells |-> UNION {r.cells : r \in {x \in sel : VPUIDof(x) = v}}] :
     v \in {VPUIDof(r) : r \in sel}}

(* the order of the rows of subWatershed_mask (sorted by the dissolve field) *)
TileOrder == <<"0208", "0301">>

(* line 271 *)
vpuList(sel) ==
  LET tiles == {m.VPUID : m \in subWatershed_mask(sel)}
      keep[i \in 0..Len(TileOrder)] ==
        IF i = 0 THEN <<>>
        ELSE IF TileOrder[i] \in tiles THEN Append(keep[i - 1], TileOrder[i])
             ELSE keep[i - 1]
  IN  keep[Len(TileOrder)]

(* lines 279-280: msk, the dissolved catchments of one VPUID *)
msk(sel, vpuid) ==
  UNION {m.cells : m \in {x \in subWatershed_mask(sel) : x.VPUID = vpuid}}

(* lines 282-285: the flow direction raster of the HU4 (either file holds  *)
(* the directions of the cells of that HU4 only)                           *)
fdr(vpuid) ==
  LET tile == UNION {c.cells : c \in {x \in Catchment : x.VPUID = vpuid}}
  IN  [c \in tile |-> FlowDir[c]]

(* lines 297-298: starting lines that intersect the tile, with seqID = s *)
flow_lyr(fl, mask, s) == {l \in fl : l.cells \cap mask # {} /\ l.seqID = s}

(* line 305: the pour point rasters PolylineToRaster may produce: each     *)
(* cell on a selected line takes the ptid_join of one line through it      *)
pp_rast(sel) ==
  LET on == UNION {l.cells : l \in sel}
  IN  {f \in [on -> {l.ptid : l \in sel}] :
         \A c \in on : \E l \in sel : c \in l.cells /\ l.ptid = f[c]}

(* line 306: value of cell c in Watershed(fdr, pp, "Value") under the mask:*)
(* the pour point first met going downstream, 0 (NoData) when the path     *)
(* leaves the mask or the raster first                                     *)
RECURSIVE WatershedValue(_, _, _, _)
WatershedValue(dir, pp, mask, c) ==
  IF c \notin mask \/ c \notin DOMAIN dir THEN 0
  ELSE IF c \in DOMAIN pp THEN pp[c]
  ELSE WatershedValue(dir, pp, mask, dir[c])

Watershed(dir, pp, mask) == [c \in mask |-> WatershedValue(dir, pp, mask, c)]

(* lines 308-312: one (multipart) polygon per watershed value *)
poly0d(ws) ==
  {[gridcode |-> v, cells |-> {c \in DOMAIN ws : ws[c] = v}] :
     v \in {ws[c] : c \in DOMAIN ws} \ {0}}

(* the watershed polygons joined to the selected catchment rows they      *)
(* intersect, without being cut by them                                    *)
poly1_NoCut(polys, sel) ==
  {[gridcode |-> x[1].gridcode, ptid |-> x[2].ptid, catID |-> x[2].catID,
    cells |-> x[1].cells] :
     x \in {y \in polys \X sel : y[1].cells \cap y[2].cells # {}}}

(* line 313: Identity_analysis(poly0d, cat): every watershed polygon split *)
(* by the selected catchment rows; the part in no catchment row keeps      *)
(* empty (0) attributes                                                    *)
poly1(polys, sel) ==
  {[gridcode |-> x[1].gridcode, ptid |-> x[2].ptid, catID |-> x[2].catID,
    cells |-> x[1].cells \cap x[2].cells] :
     x \in {y \in polys \X sel : y[1].cells \cap y[2].cells # {}}}
  \cup
  {[gridcode |-> w.gridcode, ptid |-> 0, catID |-> 0,
    cells |-> w.cells \ UNION {r.cells : r \in sel}] :
     w \in {y \in polys : y.cells \ UNION {r.cells : r \in sel} # {}}}

(* line 314: Select_analysis(poly1, catsub, 'gridcode = ' + uid) *)
catsubRows(frags, s) ==
  {[ptid |-> r.ptid, catID |-> r.catID, src |-> "sub", seq |-> s,
    cells |-> r.cells] : r \in {x \in frags : x.gridcode = x.ptid}}

(***************************************************************************)
(* GetCatchments_hw: substitution, dissolve, points without networks       *)
(***************************************************************************)

(* lines 277-300: the passes of the loops over vpu and seqs not skipped *)
Passes(flw, sel, tiles, sq) ==
  {x \in tiles \X sq : flow_lyr(flw, msk(sel, x[1]), x[2]) # {}}

(* lines 304-314: the catSub dataset pass x may write *)
PassOutcomes(flw, sel, x) ==
  {catsubRows(poly1(poly0d(Watershed(fdr(x[1]), pp, msk(sel, x[1]))), sel), x[2]) :
     pp \in pp_rast(flow_lyr(flw, msk(sel, x[1]), x[2]))}

(* lines 274-319: the datasets the loops and the merge may write as        *)
(* out_subCatch for the starting lines flw (seqID assigned) and the        *)
(* catchment rows in_CatchArea; none when there is nothing to merge        *)
MergedPasses(flw, in_CatchArea) ==
  LET sel   == cat(in_CatchArea, flw)
      tiles == {vpuList(sel)[i] : i \in 1..Len(vpuList(sel))}
      sq    == 1..Max({a[2] : a \in nids(flw)})
      P     == Passes(flw, sel, tiles, sq)
  IN  {UNION {g[x] : x \in P} :
         g \in {h \in [P -> UNION {PassOutcomes(flw, sel, x) : x \in P}] :
                  \A x \in P : h[x] \in PassOutcomes(flw, sel, x)}}
        \ (IF P = {} THEN {{}} ELSE {})

(* GetSubCatchments_hw as a whole: the datasets it may write as            *)
(* out_subCatch for the lines in_Lines and the catchment rows              *)
(* in_CatchArea; none when it raises (no starting line, nothing to merge)  *)
out_subCatch(in_Lines, in_CatchArea) ==
  LET fl == StartLines(in_Lines)
  IN  UNION {MergedPasses(WithSeqID(fl, ord), in_CatchArea) : ord \in RowOrders(fl)}

(* the rows deleted by catID alone, whatever their point *)
ReplaceWithSubCat_ByCatchment(full, sub) ==
  {r \in full : ~\E b \in sub : b.catID = r.catID} \cup sub

(* out_subCat appended, no row deleted *)
ReplaceWithSubCat_NoDelete(full, sub) == full \cup sub

(* lines 179-186: delete the rows selected pairwise by the (ptid_join,     *)
(* catID) of out_subCat, append out_subCat                                 *)
ReplaceWithSubCat(full, sub) ==
  {r \in full : ~\E b \in sub : b.ptid = r.ptid /\ b.catID = r.catID} \cup sub

(* line 192: Dissolve_management(_full, out_CatchArea, ptid_join) *)
DissolveCatchArea(full) ==
  {[ptid |-> p, src |-> "dissolve",
    cells |-> UNION {r.cells : r \in {x \in full : x.ptid = p}}] :
     p \in {r.ptid : r \in full}}

(* line 195 *)
assoc(in_Lines) == {l.ptid : l \in in_Lines}

(* lines 196-197: points "ptid_join NOT IN (assoc)" *)
pt_lyr(in_Lines) == {p \in Points : PtId(p) \notin assoc(in_Lines)}

(* the same over the catchments of the traced lines (cat_lyr of line 152   *)
(* kept, not made again from in_Catchment)                                 *)
catUnassoc1_OldLyr(pts) ==
  DissolveByPtCat(
    {[ptid |-> PtId(x[2]), catID |-> x[1].NHDPlusID, cells |-> x[1].cells] :
       x \in {y \in cat_lyr(out_Lines_full[ki].rows) \X pts :
                y[1].cells \cap in_Points[y[2]].cells # {}}},
    "fallback")

(* lines 201-206: catchments that intersect a point of pt_lyr, joined      *)
(* one-to-many to those points and dissolved by [ptid_join, catID]         *)
catUnassoc1(pts) ==
  DissolveByPtCat(
    {[ptid |-> PtId(x[2]), catID |-> x[1].NHDPlusID, cells |-> x[1].cells] :
       x \in {y \in Catchment \X pts : y[1].cells \cap in_Points[y[2]].cells # {}}},
    "fallback")

(* line 207: Append to out_CatchArea, whose only attribute is ptid_join *)
AsCatchAreaRows(rows) ==
  {[ptid |-> r.ptid, src |-> r.src, cells |-> r.cells] : r \in rows}

(***************************************************************************)
(* The program                                                             *)
(***************************************************************************)
Init ==
  /\ in_Points \in [1..NPts -> Placements]
  /\ get_SubCat \in BOOLEAN
  /\ in_Points_id \in {""} \cup DOMAIN UserFields
  /\ nhdFlow \in BOOLEAN
  /\ in_Catchment_Fields \in {{"NHDPlusID", "VPUID"}, {"VPUID"}}
  /\ Fields = UserFields
  /\ ptid_join = ""
  /\ ki = 1
  /\ pc = "main"
  /\ err = ""
  /\ lyrUpTrace = 0
  /\ lyrFile = FALSE
  /\ Network = FALSE
  /\ out_Lines_full = [k \in 1..Len(kms) |-> Absent]
  /\ out_Lines = [k \in 1..Len(kms) |-> Absent]
  /\ catch_full = [k \in 1..Len(kms) |-> Absent]
  /\ out_CatchArea = [k \in 1..Len(kms) |-> Absent]
  /\ out_subCat = Absent
  /\ flow = {}
  /\ seqs = <<>>
  /\ vpu = <<>>
  /\ vi = 1
  /\ si = 1
  /\ wsrast = <<>>
  /\ catSub = <<>>
  /\ ls_sub = <<>>
  /\ log = <<>>

(* the loop of main going on to the distance after the next one without   *)
(* having processed the next one                                           *)
MakeServiceLayer_hw_Ahead ==
  /\ pc = "main"
  /\ ki <= Len(kms)
  /\ ki' = Min(ki + 1, Len(kms))
  /\ lyrUpTrace' = kms[ki']
  /\ log' = log \o <<printMsg("Creating upstream service layers..."), printMsg("Saving service layer")>>
  /\ pc' = "GetNetworks_hw"
  /\ lyrFile' = TRUE
  /\ Network' = FALSE
  /\ UNCHANGED <<in_Points, get_SubCat, in_Points_id, nhdFlow,
                 in_Catchment_Fields, Fields, ptid_join, err, out_Lines_full, out_Lines,
                 catch_full, out_CatchArea, out_subCat, flow, seqs, vpu, vi, si,
                 wsrast, catSub, ls_sub>>

(* main, lines 490-493: next distance of the loop, build its service layer *)
(* (the Network extension is checked out at line 52, in at line 130)       *)
MakeServiceLayer_hw ==
  /\ pc = "main"
  /\ ki <= Len(kms)
  /\ lyrUpTrace' = kms[ki]
  /\ log' = log \o <<printMsg("Creating upstream service layers..."), printMsg("Saving service layer")>>
  /\ pc' = "GetNetworks_hw"
  /\ lyrFile' = TRUE
  /\ Network' = FALSE
  /\ UNCHANGED <<in_Points, get_SubCat, in_Points_id, nhdFlow,
                 in_Catchment_Fields, Fields, ptid_join, ki, err, out_Lines_full, out_Lines,
                 catch_full, out_CatchArea, out_subCat, flow, seqs, vpu, vi, si,
                 wsrast, catSub, ls_sub>>

(* main: the loop over kms is exhausted *)
MainReturn ==
  /\ pc = "main"
  /\ ki > Len(kms)
  /\ pc' = "exit"
  /\ UNCHANGED <<in_Points, get_SubCat, Network, lyrFile, in_Points_id, nhdFlow,
                 in_Catchment_Fields, Fields, ptid_join, ki, err, lyrUpTrace, out_Lines_full,
                 out_Lines, catch_full, out_CatchArea, out_subCat, flow, seqs,
                 vpu, vi, si, wsrast, catSub, ls_sub, log>>

(* GetNetworks_hw lines 339-365: the Network extension is checked out      *)
(* (line 340); without NHDFlowline the function returns                    *)
(* a message to main, which drops it and goes on with the next distance;   *)
(* else the point id field is made (no in_Points_id) or validated.         *)
GetNetworks_PointId ==
  /\ pc = "GetNetworks_hw"
  /\ IF ~nhdFlow
     THEN /\ pc' = "main"
          /\ ki' = ki + 1
          /\ UNCHANGED <<err, Fields, ptid_join, log>>
     ELSE IF in_Points_id = ""
     THEN /\ ptid_join' = "OBJECTID_in_Points"
          /\ Fields' = WithPtidJoin(Fields)
          /\ log' = Append(log,
                 IF "OBJECTID_in_Points" \in DOMAIN Fields
                 THEN pyprint("Using existing field as a unique point ID...")
                 ELSE pyprint("Adding new field to points as a unique ID..."))
          /\ pc' = "Solve"
          /\ UNCHANGED <<ki, err>>
     ELSE IF Fields[in_Points_id].type \notin {"OID", "Integer", "Double"}
     THEN /\ pc' = "error"
          /\ err' = "ValueError: is not a numeric field type"
          /\ UNCHANGED <<ki, Fields, ptid_join, log>>
     ELSE IF Cardinality(ptidu(Fields[in_Points_id])) # Cardinality(Points)
     THEN /\ pc' = "error"
          /\ err' = "ValueError: contains non-unique integers"
          /\ UNCHANGED <<ki, Fields, ptid_join, log>>
     ELSE /\ ptid_join' = in_Points_id
          /\ pc' = "Solve"
          /\ UNCHANGED <<ki, err, Fields, log>>
  /\ Network' = TRUE
  /\ UNCHANGED <<in_Points, get_SubCat, lyrFile, in_Points_id, nhdFlow,
                 in_Catchment_Fields, lyrUpTrace, out_Lines_full, out_Lines,
                 catch_full, out_CatchArea, out_subCat, flow, seqs, vpu, vi, si,
                 wsrast, catSub, ls_sub>>

(* GetNetworks_hw lines 367-440: load the points, solve, save the lines.   *)
(* The layer file in_lyrUpTrace is opened (lines 371-393) and the solve    *)
(* needs one valid facility at least.                                      *)
GetNetworks_Solve ==
  /\ pc = "Solve"
  /\ IF ~lyrFile
     THEN /\ pc' = "error"
          /\ err' = "AddLocations_na: layer file does not exist"
          /\ UNCHANGED <<out_Lines_full, out_Lines>>
     ELSE IF \A p \in Points : ~Located(p)
     THEN /\ pc' = "error"
          /\ err' = "Solve_na: no valid facilities"
          /\ UNCHANGED <<out_Lines_full, out_Lines>>
     ELSE /\ out_Lines_full' =
               [out_Lines_full EXCEPT ![ki] = Dataset(upLines(lyrUpTrace))]
          /\ out_Lines' =
               [out_Lines EXCEPT ![ki] = Dataset(DissolveByPt(upLines(lyrUpTrace)))]
          /\ pc' = "GetCatchments_hw"
          /\ err' = err
  /\ log' = log \o <<printMsg("Loading points into service layer..."), printMsg("Solving service layer...")>>
  /\ UNCHANGED <<in_Points, get_SubCat, Network, lyrFile, in_Points_id, nhdFlow,
                 in_Catchment_Fields, Fields, ptid_join, ki, lyrUpTrace, catch_full,
                 out_CatchArea, out_subCat, flow, seqs, vpu, vi, si, wsrast,
                 catSub, ls_sub>>

(* a solve error caught around the call in main's loop: the loop goes on   *)
(* with the next distance                                                  *)
GetNetworks_SolveError_Skipped ==
  /\ pc = "Solve"
  /\ pc' = "main"
  /\ ki' = ki + 1
  /\ err' = "Solve_na: solve error"
  /\ log' = log \o <<printMsg("Loading points into service layer..."), printMsg("Solving service layer...")>>
  /\ UNCHANGED <<in_Points, get_SubCat, Network, lyrFile, in_Points_id, nhdFlow,
                 in_Catchment_Fields, Fields, ptid_join, lyrUpTrace,
                 out_Lines_full, out_Lines, catch_full, out_CatchArea,
                 out_subCat, flow, seqs, vpu, vi, si, wsrast, catSub, ls_sub>>

(* a solve error that comes after the lines solved so far were saved *)
GetNetworks_SolveError_LinesSaved ==
  /\ pc = "Solve"
  /\ pc' = "error"
  /\ err' = "Solve_na: solve error"
  /\ out_Lines_full' = [out_Lines_full EXCEPT ![ki] = Dataset(upLines(lyrUpTrace))]
  /\ log' = log \o <<printMsg("Loading points into service layer..."), printMsg("Solving service layer...")>>
  /\ UNCHANGED <<in_Points, get_SubCat, Network, lyrFile, in_Points_id, nhdFlow,
                 in_Catchment_Fields, Fields, ptid_join, ki, lyrUpTrace,
                 out_Lines, catch_full, out_CatchArea, out_subCat, flow, seqs,
                 vpu, vi, si, wsrast, catSub, ls_sub>>

(* Solve_na with terminate_on_solve_error = TERMINATE: a hard solve error  *)
(* of the network service raises, nothing has been saved.                  *)
GetNetworks_SolveError ==
  /\ pc = "Solve"
  /\ pc' = "error"
  /\ err' = "Solve_na: solve error"
  /\ log' = log \o <<printMsg("Loading points into service layer..."), printMsg("Solving service layer...")>>
  /\ UNCHANGED <<in_Points, get_SubCat, Network, lyrFile, in_Points_id, nhdFlow,
                 in_Catchment_Fields, Fields, ptid_join, ki, lyrUpTrace, out_Lines_full,
                 out_Lines, catch_full, out_CatchArea, out_subCat, flow, seqs,
                 vpu, vi, si, wsrast, catSub, ls_sub>>

(* the sub-catchments computed again in every call, out_subCat existing or *)
(* not                                                                     *)
GetCatchments_Coarse_AlwaysRefine ==
  /\ pc = "GetCatchments_hw"
  /\ IF "NHDPlusID" \notin in_Catchment_Fields
     THEN /\ pc' = "error"
          /\ err' = "MakeFeatureLayer: no field NHDPlusID"
          /\ UNCHANGED <<catch_full, log>>
     ELSE IF out_Lines_full[ki].rows = {}
     THEN /\ pc' = "error"
          /\ err' = "MakeFeatureLayer: invalid expression"
          /\ UNCHANGED <<catch_full, log>>
     ELSE /\ catch_full' =
               [catch_full EXCEPT ![ki] = Dataset(CoarseCatchments(out_Lines_full[ki].rows))]
          /\ pc' = IF ~get_SubCat THEN "Dissolve" ELSE "GetSubCatchments_hw"
          /\ err' = err
          /\ log' = Append(log, pyprint("Getting associated catchments..."))
  /\ UNCHANGED <<in_Points, get_SubCat, Network, lyrFile, in_Points_id, nhdFlow,
                 in_Catchment_Fields, Fields, ptid_join, ki, lyrUpTrace, out_Lines_full,
                 out_Lines, out_CatchArea, out_subCat, flow, seqs, vpu, vi, si,
                 wsrast, catSub, ls_sub>>

(* GetCatchments_hw lines 147-170: the catchments whose key equals that of *)
(* a traced line they intersect, one row per (point, catchment).  The      *)
(* query of line 151 is no valid expression for a layer without the field  *)
(* NHDPlusID, nor, as "catID IN ()", when there is no traced line.         *)
GetCatchments_Coarse ==
  /\ pc = "GetCatchments_hw"
  /\ IF "NHDPlusID" \notin in_Catchment_Fields
     THEN /\ pc' = "error"
          /\ err' = "MakeFeatureLayer: no field NHDPlusID"
          /\ UNCHANGED <<catch_full, log>>
     ELSE IF out_Lines_full[ki].rows = {}
     THEN /\ pc' = "error"
          /\ err' = "MakeFeatureLayer: invalid expression"
          /\ UNCHANGED <<catch_full, log>>
     ELSE /\ catch_full' =
               [catch_full EXCEPT ![ki] = Dataset(CoarseCatchments(out_Lines_full[ki].rows))]
          /\ pc' = IF ~get_SubCat THEN "Dissolve"
                   ELSE IF out_subCat.exists THEN "Replace"
                   ELSE "GetSubCatchments_hw"
          /\ err' = err
          /\ log' = Append(log, pyprint("Getting associated catchments..."))
  /\ UNCHANGED <<in_Points, get_SubCat, Network, lyrFile, in_Points_id, nhdFlow,
                 in_Catchment_Fields, Fields, ptid_join, ki, lyrUpTrace, out_Lines_full,
                 out_Lines, out_CatchArea, out_subCat, flow, seqs, vpu, vi, si,
                 wsrast, catSub, ls_sub>>

(* GetSubCatchments_hw lines 231-276: starting lines, seqID, tiles.        *)
(* max() of an empty list raises when no line has FromCumul_Length = 0.    *)
GetSubCatchments_Setup ==
  /\ pc = "GetSubCatchments_hw"
  /\ LET fl == StartLines(out_Lines_full[ki].rows)
     IN  IF fl = {}
         THEN /\ pc' = "error"
              /\ err' = "ValueError: max() arg is an empty sequence"
              /\ UNCHANGED <<flow, seqs, vpu>>
         ELSE /\ \E ord \in RowOrders(fl) : flow' = WithSeqID(fl, ord)
              /\ seqs' = [i \in 1..Max({a[2] : a \in nids(fl)}) |-> i]
              /\ vpu' = vpuList(cat(catch_full[ki].rows, fl))
              /\ pc' = "Loop"
              /\ err' = err
  /\ vi' = 1
  /\ si' = 1
  /\ ls_sub' = <<>>
  /\ log' = Append(log, pyprint("Generating sub-catchment for initial pour points..."))
  /\ UNCHANGED <<in_Points, get_SubCat, Network, lyrFile, in_Points_id, nhdFlow,
                 in_Catchment_Fields, Fields, ptid_join, ki, lyrUpTrace, out_Lines_full,
                 out_Lines, catch_full, out_CatchArea, out_subCat, wsrast, catSub>>

(* a pass whose scratch datasets are not overwritten: the rows written by  *)
(* the passes before it stay in what it writes                             *)
GetSubCatchments_Pass_Appending ==
  /\ pc = "Loop"
  /\ vi <= Len(vpu)
  /\ LET vpuid == vpu[vi]
         s     == seqs[si]
         sel   == cat(catch_full[ki].rows, flow)
         mask  == msk(sel, vpuid)
         lyr   == flow_lyr(flow, mask, s)
     IN  IF lyr = {}
         THEN UNCHANGED <<wsrast, catSub, ls_sub, log>>
         ELSE \E pp \in pp_rast(lyr) :
                LET ws == Watershed(fdr(vpuid), pp, mask)
                IN  /\ wsrast' = ws
                    /\ catSub' = (<<vpuid, s>> :> (catsubRows(poly1(poly0d(ws), sel), s)
                                       \cup UNION {catSub[n] : n \in DOMAIN catSub}))
                                   @@ catSub
                    /\ ls_sub' = Append(ls_sub, <<vpuid, s>>)
                    /\ log' = Append(log, pyprint("Getting subcatchments for HU4, group..."))
  /\ IF si < Len(seqs)
     THEN si' = si + 1 /\ vi' = vi
     ELSE si' = 1 /\ vi' = vi + 1
  /\ UNCHANGED <<in_Points, get_SubCat, Network, lyrFile, in_Points_id, nhdFlow,
                 in_Catchment_Fields, Fields, ptid_join, ki, pc, err, lyrUpTrace, out_Lines_full,
                 out_Lines, catch_full, out_CatchArea, out_subCat, flow, seqs, vpu>>

(* GetSubCatchments_hw lines 277-315: one pass of the loops over vpu and   *)
(* seqs: watershed of the selected pour points under the mask of the tile, *)
(* split by the selected catchment rows, fragments of the own point kept.  *)
GetSubCatchments_Pass ==
  /\ pc = "Loop"
  /\ vi <= Len(vpu)
  /\ LET vpuid == vpu[vi]
         s     == seqs[si]
         sel   == cat(catch_full[ki].rows, flow)
         mask  == msk(sel, vpuid)
         lyr   == flow_lyr(flow, mask, s)
     IN  IF lyr = {}
         THEN UNCHANGED <<wsrast, catSub, ls_sub, log>>
         ELSE \E pp \in pp_rast(lyr) :
                LET ws == Watershed(fdr(vpuid), pp, mask)
                IN  /\ wsrast' = ws
                    /\ catSub' = (<<vpuid, s>> :> catsubRows(poly1(poly0d(ws), sel), s))
                                   @@ catSub
                    /\ ls_sub' = Append(ls_sub, <<vpuid, s>>)
                    /\ log' = Append(log, pyprint("Getting subcatchments for HU4, group..."))
  /\ IF si < Len(seqs)
     THEN si' = si + 1 /\ vi' = vi
     ELSE si' = 1 /\ vi' = vi + 1
  /\ UNCHANGED <<in_Points, get_SubCat, Network, lyrFile, in_Points_id, nhdFlow,
                 in_Catchment_Fields, Fields, ptid_join, ki, pc, err, lyrUpTrace, out_Lines_full,
                 out_Lines, catch_full, out_CatchArea, out_subCat, flow, seqs, vpu>>

(* GetSubCatchments_hw lines 317-324: merge the catSub datasets into       *)
(* out_subCatch.  Merge_management needs one input dataset at least.       *)
GetSubCatchments_Merge ==
  /\ pc = "Loop"
  /\ vi > Len(vpu)
  /\ IF ls_sub = <<>>
     THEN /\ pc' = "error"
          /\ err' = "Merge_management: no input datasets"
          /\ UNCHANGED out_subCat
     ELSE /\ out_subCat' = Dataset(UNION {catSub[ls_sub[i]] : i \in 1..Len(ls_sub)})
          /\ pc' = "Replace"
          /\ err' = err
  /\ UNCHANGED <<in_Points, get_SubCat, Network, lyrFile, in_Points_id, nhdFlow,
                 in_Catchment_Fields, Fields, ptid_join, ki, lyrUpTrace, out_Lines_full,
                 out_Lines, catch_full, out_CatchArea, flow, seqs, vpu, vi, si,
                 wsrast, catSub, ls_sub, log>>

(* GetCatchments_hw lines 178-187: replace the initial catchment rows by   *)
(* the sub-catchments.  With out_subCat empty the query "()" is no valid   *)
(* expression.                                                             *)
GetCatchments_Replace ==
  /\ pc = "Replace"
  /\ IF out_subCat.rows = {}
     THEN /\ pc' = "error"
          /\ err' = "SelectLayerByAttribute: invalid expression"
          /\ UNCHANGED catch_full
     ELSE /\ catch_full' =
               [catch_full EXCEPT ![ki] =
                  Dataset(ReplaceWithSubCat(catch_full[ki].rows, out_subCat.rows))]
          /\ pc' = "Dissolve"
          /\ err' = err
  /\ log' = Append(log, pyprint("Replacing initial catchment with sub-catchment..."))
  /\ UNCHANGED <<in_Points, get_SubCat, Network, lyrFile, in_Points_id, nhdFlow,
                 in_Catchment_Fields, Fields, ptid_join, ki, lyrUpTrace, out_Lines_full,
                 out_Lines, out_CatchArea, out_subCat, flow, seqs, vpu, vi, si,
                 wsrast, catSub, ls_sub>>

(* GetCatchments_hw lines 191-211: dissolve by point, then add catchments  *)
(* for the points that have no traced line                                 *)
GetCatchments_Dissolve ==
  /\ pc = "Dissolve"
  /\ LET pts == pt_lyr(out_Lines_full[ki].rows)
         un  == catUnassoc1(pts)
         dis == DissolveCatchArea(catch_full[ki].rows)
     IN  IF pts # {}
         THEN /\ out_CatchArea' =
                   [out_CatchArea EXCEPT ![ki] = Dataset(dis \cup AsCatchAreaRows(un))]
              /\ catch_full' =
                   [catch_full EXCEPT ![ki] = Dataset(catch_full[ki].rows \cup un)]
              /\ log' = log \o <<pyprint("Dissolving catchments..."),
                                 printMsg("Adding catchments for points without networks...")>>
         ELSE /\ out_CatchArea' = [out_CatchArea EXCEPT ![ki] = Dataset(dis)]
              /\ catch_full' = catch_full
              /\ log' = Append(log, pyprint("Dissolving catchments..."))
  /\ pc' = "Return"
  /\ UNCHANGED <<in_Points, get_SubCat, Network, lyrFile, in_Points_id, nhdFlow,
                 in_Catchment_Fields, Fields, ptid_join, ki, err, lyrUpTrace, out_Lines_full,
                 out_Lines, out_subCat, flow, seqs, vpu, vi, si, wsrast, catSub,
                 ls_sub>>

(* GetNetworks_hw lines 448-462 and the step of main's loop.  The layer    *)
(* Network extension is checked in (line 453); the layer                   *)
(* file and its data are deleted (lines 455-458) unless the deletion       *)
(* raises, which the except clause only reports.                           *)
GetNetworks_Return ==
  /\ pc = "Return"
  /\ ki' = ki + 1
  /\ pc' = "main"
  /\ \/ /\ lyrFile' = FALSE
        /\ log' = Append(log, printMsg("Completed function."))
     \/ /\ lyrFile' = lyrFile
        /\ log' = log \o <<printMsg("Completed function."),
                           pyprint("Service area layers/datasets not deleted.")>>
  /\ Network' = FALSE
  /\ UNCHANGED <<in_Points, get_SubCat, in_Points_id, nhdFlow,
                 in_Catchment_Fields, Fields, ptid_join, err, lyrUpTrace, out_Lines_full,
                 out_Lines, catch_full, out_CatchArea, out_subCat, flow, seqs,
                 vpu, vi, si, wsrast, catSub, ls_sub>>

Next ==
  \/ MakeServiceLayer_hw
  \/ MainReturn
  \/ GetNetworks_PointId
  \/ GetNetworks_Solve
  \/ GetNetworks_SolveError
  \/ GetCatchments_Coarse
  \/ GetSubCatchments_Setup
  \/ GetSubCatchments_Pass
  \/ GetSubCatchments_Merge
  \/ GetCatchments_Replace
  \/ GetCatchments_Dissolve
  \/ GetNetworks_Return

Spec == Init /\ [][Next]_vars

(* A caller that follows the syntax note of lines 31-36: the service layer *)
(* is made once and GetNetworks_hw is called with it again and again, here *)
(* once for every output name of the list.                                 *)
Caller_MakeServiceLayer ==
  /\ ki = 1
  /\ MakeServiceLayer_hw

Caller_GetNetworksAgain ==
  /\ pc = "main"
  /\ ki > 1
  /\ ki <= Len(kms)
  /\ pc' = "GetNetworks_hw"
  /\ UNCHANGED <<in_Points, get_SubCat, Network, lyrFile, in_Points_id, nhdFlow,
                 in_Catchment_Fields, Fields, ptid_join, ki, err, lyrUpTrace,
                 out_Lines_full, out_Lines, catch_full, out_CatchArea,
                 out_subCat, flow, seqs, vpu, vi, si, wsrast, catSub, ls_sub,
                 log>>

NextReuse ==
  \/ Caller_MakeServiceLayer
  \/ Caller_GetNetworksAgain
  \/ MainReturn
  \/ GetNetworks_PointId
  \/ GetNetworks_Solve
  \/ GetNetworks_SolveError
  \/ GetCatchments_Coarse
  \/ GetSubCatchments_Setup
  \/ GetSubCatchments_Pass
  \/ GetSubCatchments_Merge
  \/ GetCatchments_Replace
  \/ GetCatchments_Dissolve
  \/ GetNetworks_Return

SpecReuse == Init /\ [][NextReuse]_vars

(***************************************************************************)
(* Properties                                                              *)
(***************************************************************************)
Thresholds == 1..Len(kms)

(* resolve_catchments (GetCatchments_hw) has completed for distance k *)
Resolved(k) == out_CatchArea[k].exists

RowsOf(k, p) == {r \in out_CatchArea[k].rows : r.ptid = p}

LinesOf(k, p) == {l \in out_Lines_full[k].rows : l.ptid = p}

(* the catchments of the full layer a point intersects *)
CatchmentsAt(p) == {c \in Catchment : c.cells \cap in_Points[p].cells # {}}

(* the catchments whose key is the catID of a line traced from p *)
KeyMatched(k, p) ==
  {c \in Catchment : \E l \in LinesOf(k, p) : l.catID = c.NHDPlusID}

(* C1 Coverage: once GetCatchments_hw has completed, the dissolved         *)
(* catchment-area output holds exactly one row for every input point,      *)
(* traced or not.                                                          *)
C1_Coverage ==
  \A k \in Thresholds : Resolved(k) =>
    \A p \in Points : Cardinality(RowsOf(k, p)) = 1

(* C2: every point that the identity path left without a catchment, be its *)
(* trace empty or its traced lines without a matching catchment, is        *)
(* associated with the catchments of the full layer it intersects.         *)
C2_FallbackForEveryUncoveredPoint ==
  \A k \in Thresholds : Resolved(k) =>
    \A p \in Points :
      (~\E r \in RowsOf(k, p) : r.src = "dissolve") =>
        \A c \in CatchmentsAt(p) :
          \E r \in RowsOf(k, p) : r.src = "fallback" /\ r.cells = c.cells

Reported == UNION {log[i].ptids : i \in 1..Len(log)}

(* C4: a point for which neither the identity path nor the fallback gave a *)
(* catchment (it has no row and lies in no catchment of the full layer) is *)
(* reported by GetCatchments_hw.                                           *)
C4_UnresolvedPointsReported ==
  \A k \in Thresholds : Resolved(k) =>
    \A p \in Points :
      (RowsOf(k, p) = {} /\ CatchmentsAt(p) = {}) => p \in Reported

(* C5: a point handled by the fallback contributes one row to the          *)
(* dissolved catchment-area output, however many catchments it intersects. *)
C5_FallbackOneRowPerPoint ==
  \A k \in Thresholds : Resolved(k) =>
    \A p \in pt_lyr(out_Lines_full[k].rows) : Cardinality(RowsOf(k, p)) <= 1

(* C6 Identity exactness: outside the fallback, a catchment row of point p *)
(* carries the catID of a line traced from p itself, and the dissolved     *)
(* area of p lies within the catchments whose keys its own lines carry.    *)
C6_IdentityExactness ==
  \A k \in Thresholds :
    /\ \A r \in catch_full[k].rows :
         r.src # "fallback" => \E l \in LinesOf(k, r.ptid) : l.catID = r.catID
    /\ \A r \in out_CatchArea[k].rows :
         r.src = "dissolve" =>
           r.cells \subseteq UNION {c.cells : c \in KeyMatched(k, r.ptid)}

(* a completed run in which a line of p crosses a catchment whose key none *)
(* of p's lines carries, while a line of another point carries it          *)
C6_Witness ==
  \E k \in Thresholds : \E p, q \in Points : \E c \in Catchment :
    /\ Resolved(k) /\ p # q
    /\ RowsOf(k, p) # {}
    /\ c \notin KeyMatched(k, p)
    /\ \E l \in LinesOf(k, p) : l.cells \cap c.cells # {}
    /\ c \in KeyMatched(k, q)

(* C7: with get_SubCat = False the area of a traced point covers every     *)
(* catchment whose key is the catID of one of its traced lines.            *)
C7_CoarseAreaComplete ==
  \A k \in Thresholds : (Resolved(k) /\ ~get_SubCat) =>
    \A p \in Points : \A c \in KeyMatched(k, p) :
      \E r \in RowsOf(k, p) : c.cells \subseteq r.cells

(* every sub-catchment row written so far: the catSub datasets and         *)
(* out_subCat                                                              *)
SubCatchRows == out_subCat.rows \cup UNION {catSub[n] : n \in DOMAIN catSub}

DupPair(p, q, X) ==
  /\ p # q
  /\ {l.ptid : l \in {m \in flow : m.catID = X}} = {p, q}
  /\ Cardinality({m \in flow : m.catID = X}) = 2

SubRows(p, X) == {r \in out_subCat.rows : r.ptid = p /\ r.catID = X}

MultiStart(p, X) ==
  Cardinality({l \in flow : l.ptid = p /\ l.catID = X}) > 1

Warned == \E i \in 1..Len(log) : log[i].fn = "printWrng"

NoStart(k, p) ==
  /\ LinesOf(k, p) # {}
  /\ \A l \in LinesOf(k, p) : l.FromCumul_Length # 0

(* C11: a point whose trace has lines but none with zero accumulated       *)
(* length is left out of the refinement and keeps the rows of the identity *)
(* path; GetCatchments_hw does not fail for want of a starting line, even  *)
(* when no point of the batch has one.                                     *)
C11_NoStartEdgeKeepsCoarse ==
  /\ err # "ValueError: max() arg is an empty sequence"
  /\ \A k \in Thresholds : \A p \in Points :
       (Resolved(k) /\ get_SubCat /\ NoStart(k, p)) =>
         {r \in catch_full[k].rows : r.ptid = p}
           = {r \in CoarseCatchments(out_Lines_full[k].rows) : r.ptid = p}

(* C12: the selection of the starting lines (FromCumul_Length = 0) holds   *)
(* at most one line for each point.                                        *)
C12_OneStartLinePerPoint ==
  \A p \in Points : Cardinality({l \in flow : l.ptid = p}) <= 1

(* C13: without in_Points_id the point id is the field OBJECTID_in_Points: *)
(* whenever it is in use its values are those of the OID, all different,   *)
(* and once the field is there no later call changes a value of it.        *)
C13_PointIdStable ==
  /\ [](in_Points_id = "" /\ ptid_join # "" =>
          /\ ptid_join = "OBJECTID_in_Points"
          /\ \A p \in Points : PtId(p) = p
          /\ \A p, q \in Points : PtId(p) = PtId(q) => p = q)
  /\ [][(in_Points_id = "" /\ "OBJECTID_in_Points" \in DOMAIN Fields) =>
          /\ "OBJECTID_in_Points" \in DOMAIN Fields'
          /\ Fields'["OBJECTID_in_Points"] = Fields["OBJECTID_in_Points"]]_vars

(* a second call of GetNetworks_hw found the field of the first and used   *)
(* it to trace the points                                                  *)
C13_Witness ==
  /\ in_Points_id = ""
  /\ \E i \in 1..Len(log) :
       log[i].msg = "Using existing field as a unique point ID..."
  /\ out_Lines_full[2].exists

(* C14: a field given as in_Points_id is accepted if and only if its type  *)
(* is numeric and it holds no value twice; a refusal is a ValueError       *)
(* raised before a point is loaded, a trace solved or an output written,   *)
(* and in_Points stays as it was.                                          *)
C14_IdFieldValidated ==
  in_Points_id # "" =>
    LET f        == UserFields[in_Points_id]
        valid    == /\ f.type \in {"OID", "SmallInteger", "Integer", "Single", "Double"}
                    /\ \A p, q \in Points : f.vals[p] = f.vals[q] => p = q
        rejected == err \in {"ValueError: is not a numeric field type",
                             "ValueError: contains non-unique integers"}
    IN  /\ rejected => ~valid
        /\ ptid_join # "" => (valid /\ ptid_join = in_Points_id)
        /\ rejected =>
             /\ Fields = UserFields
             /\ lyrUpTrace = kms[1]
             /\ \A k \in Thresholds :
                  ~out_Lines_full[k].exists /\ ~out_Lines[k].exists /\ ~out_CatchArea[k].exists

(* the exceptions Solve_na ends with *)
SolveErrors == {"Solve_na: solve error", "Solve_na: no valid facilities"}

(* C15 as stated: a hard solve error ends the iteration of its distance    *)
(* only: while a distance is left to process the run has not ended.        *)
C15_SolveErrorAbortsIterationOnly ==
  (err = "Solve_na: solve error" /\ ki < Len(kms)) => pc # "error"

(* C15 amended: a solve error ends the run: the exception leaves           *)
(* GetNetworks_hw and main, no step follows it, and no distance after the  *)
(* failing one is ever attempted.                                          *)
C15_SolveErrorEndsRun ==
  /\ [](err \in SolveErrors =>
          /\ pc = "error"
          /\ lyrUpTrace = kms[ki]
          /\ \A k \in Thresholds : k > ki =>
               ~out_Lines_full[k].exists /\ ~out_CatchArea[k].exists)
  /\ [][err \notin SolveErrors]_vars

(* a hard solve error at a distance that is not the last of kms *)
C15_Witness ==
  err = "Solve_na: solve error" /\ pc = "error" /\ ki < Len(kms)

(* C16: after a solve error none of the outputs of that distance exists:   *)
(* neither the un-dissolved lines, nor the dissolved lines, nor the        *)
(* catchment outputs; those of the distances before are complete.          *)
C16_NoPartialCommit ==
  err \in SolveErrors =>
    /\ ~out_Lines_full[ki].exists
    /\ ~out_Lines[ki].exists
    /\ ~catch_full[ki].exists
    /\ ~out_CatchArea[ki].exists
    /\ \A k \in Thresholds : k < ki =>
         out_Lines_full[k].exists /\ out_Lines[k].exists /\ out_CatchArea[k].exists

(* a hard solve error at the second distance, after the first was          *)
(* completed                                                               *)
C16_Witness ==
  err = "Solve_na: solve error" /\ ki = 2 /\ Resolved(1)

(* C17: a catchment layer that lacks the field NHDPlusID is a fatal error  *)
(* found before anything is processed: at the moment the error is raised   *)
(* no trace has been solved and no line output has been written.           *)
C17_MissingKeyFieldFatalFirst ==
  err = "MakeFeatureLayer: no field NHDPlusID" =>
    /\ pc = "error"
    /\ \A k \in Thresholds : ~out_Lines_full[k].exists /\ ~out_Lines[k].exists

(* C18: without NHDFlowline beside the network dataset the run stops in an *)
(* error: GetNetworks_hw does not return to the loop of main, which never  *)
(* goes on to the next distance.                                           *)
C18_MissingFlowlineFatal ==
  ~nhdFlow => (ki = 1 /\ pc \in {"main", "GetNetworks_hw", "error"})

(* the lines traced for distance k carry the key of no catchment *)
ZeroCatchments(k) ==
  /\ "NHDPlusID" \in in_Catchment_Fields
  /\ out_Lines_full[k].exists
  /\ cat_lyr(out_Lines_full[k].rows) = {}

(* C19: when the traced lines reference no catchment at all,               *)
(* GetCatchments_hw does not fail: it logs a warning and returns its       *)
(* result, in which the points without lines have their fallback rows.     *)
C19_ZeroCatchmentsWarned ==
  \A k \in Thresholds : ZeroCatchments(k) =>
    /\ k = ki => pc # "error"
    /\ Resolved(k) =>
         /\ Warned
         /\ \A p \in Points : \A c \in CatchmentsAt(p) :
              LinesOf(k, p) = {} =>
                \E r \in RowsOf(k, p) : r.src = "fallback" /\ r.cells = c.cells
(* GetCatchments_hw (lines 147-211) as a whole, called for in_Lines when   *)
(* out_subCat does not exist yet: the datasets it may write as             *)
(* out_CatchArea; none when it raises.                                     *)
GetCatchments_hw(in_Lines) ==
  LET full == CoarseCatchments(in_Lines)
      un   == AsCatchAreaRows(catUnassoc1(pt_lyr(in_Lines)))
  IN  IF in_Lines = {} THEN {}
      ELSE IF ~get_SubCat THEN {DissolveCatchArea(full) \cup un}
      ELSE {DissolveCatchArea(ReplaceWithSubCat(full, sub)) \cup un :
              sub \in out_subCatch(in_Lines, full) \ {{}}}

EdgesOf(k, p) == {l.SourceOID : l \in LinesOf(k, p)}

(* C21: distance monotonicity: for distances d1 < d2 of the loop, the      *)
(* edges traced from a point for d1 are among those traced from it for d2, *)
(* and so is the stretch of the network covered.                           *)
C21_DistanceMonotone ==
  \A k1, k2 \in Thresholds : \A p \in Points :
    (kms[k1] < kms[k2] /\ out_Lines_full[k1].exists /\ out_Lines_full[k2].exists) =>
      /\ EdgesOf(k1, p) \subseteq EdgesOf(k2, p)
      /\ UNION {l.cells : l \in LinesOf(k1, p)}
            \subseteq UNION {l.cells : l \in LinesOf(k2, p)}

(* both distances are traced and the larger one reaches an edge more *)
C21_Witness ==
  \E p \in Points :
    /\ out_Lines_full[1].exists /\ out_Lines_full[2].exists
    /\ EdgesOf(1, p) # {}
    /\ EdgesOf(2, p) \ EdgesOf(1, p) # {}

(* the lines the solve traces from point p for distance k *)
TracedFrom(k, p) ==
  IF Located(p)
  THEN ServiceAreaLines(in_Points[p].site[1], in_Points[p].site[2],
                        kms[k], in_Points[p].eps)
  ELSE {}

(* C22: the outputs saved for a distance are keyed by the same point id:   *)
(* out_Lines + '_full' holds one row per line traced, with the id of the   *)
(* point it was traced from; out_Lines holds exactly one row for every     *)
(* point that has a traced line and no other row; every id in              *)
(* out_CatchArea is the id of an input point.                              *)
C22_OutputsKeyedByPointId ==
  \A k \in Thresholds :
    /\ out_Lines[k].exists =>
         /\ out_Lines_full[k].exists
         /\ \A l \in out_Lines_full[k].rows : \E p \in Points :
              /\ l.ptid = PtId(p)
              /\ \E t \in TracedFrom(k, p) :
                   t.SourceOID = l.SourceOID /\ t.cells = l.cells
         /\ \A p \in Points :
              Cardinality({l \in out_Lines_full[k].rows : l.ptid = PtId(p)})
                = Cardinality(TracedFrom(k, p))
         /\ \A p \in Points :
              Cardinality({r \in out_Lines[k].rows : r.ptid = PtId(p)})
                = IF TracedFrom(k, p) # {} THEN 1 ELSE 0
         /\ \A r \in out_Lines[k].rows : \E p \in Points : r.ptid = PtId(p)
    /\ Resolved(k) =>
         \A r \in out_CatchArea[k].rows : \E p \in Points : r.ptid = PtId(p)

(* a distance is resolved for points whose id is a field the caller named, *)
(* one of them with several traced lines, one with none                    *)
C22_Witness ==
  \E k \in Thresholds :
    /\ Resolved(k)
    /\ in_Points_id # ""
    /\ \E p, q \in Points :
         /\ Cardinality(LinesOf(k, PtId(p))) > 1
         /\ LinesOf(k, PtId(q)) = {}
         /\ RowsOf(k, PtId(q)) # {}

(* the positions of the program inside the call of GetNetworks_hw *)
InGetNetworks ==
  pc \in {"GetNetworks_hw", "Solve", "GetCatchments_hw", "GetSubCatchments_hw",
          "Loop", "Replace", "Dissolve", "Return"}

(* the datasets written for distance k *)
OutputsOf(k) == <<out_Lines_full[k], out_Lines[k], catch_full[k], out_CatchArea[k]>>

(* C23: the loop of main is batch-sequential: the distances are taken in   *)
(* list order, one step at a time; a distance is started only after the    *)
(* call for every earlier one has returned (with its outputs written, or   *)
(* at once for want of NHDFlowline); the service layer in use is that of   *)
(* the distance being processed; and the outputs of a distance are written *)
(* only while that distance is the one being processed.                    *)
C23_BatchSequential ==
  /\ [](\A k \in Thresholds : k < ki => (Resolved(k) \/ ~nhdFlow))
  /\ [](\A k \in Thresholds : k > ki => OutputsOf(k) = <<Absent, Absent, Absent, Absent>>)
  /\ [](InGetNetworks => lyrUpTrace = kms[ki])
  /\ [][/\ ki' \in {ki, ki + 1}
         /\ ki' = ki + 1 => (pc' = "main" /\ \A k \in Thresholds : OutputsOf(k)' = OutputsOf(k))
         /\ \A k \in Thresholds : k # ki => OutputsOf(k)' = OutputsOf(k)]_vars

(* the second distance is being resolved after the first was finished *)
C23_Witness ==
  /\ ki = 2
  /\ pc = "Dissolve"
  /\ Resolved(1)
  /\ out_Lines_full[2].exists

(* C24: the service layer made by MakeServiceLayer_hw for a distance is    *)
(* made once and stays reusable: when a call of GetNetworks_hw that used   *)
(* it has completed, a further call with the same layer, not made again,   *)
(* does not fail for want of it.                                           *)
C24_ServiceLayerReusable ==
  err # "AddLocations_na: layer file does not exist"

GroupOf(X) == {l \in flow : l.catID = X}

(* C26: once seqID is assigned, the starting lines of every catchment that *)
(* holds k of them carry the values 1..k, each once (1 for a line alone in *)
(* its catchment); so no two lines of one pass have the same catID, and    *)
(* the loop runs over as many sequence indices as the largest group has    *)
(* lines.                                                                  *)
C26_SeqIDInvariant ==
  flow # {} =>
    /\ \A X \in {l.catID : l \in flow} :
         /\ {l.seqID : l \in GroupOf(X)} = 1..Cardinality(GroupOf(X))
         /\ \A l, m \in GroupOf(X) : l.seqID = m.seqID => l = m
    /\ \A s \in 1..Len(seqs) : \A l, m \in {x \in flow : x.seqID = s} :
         l.catID = m.catID => l = m
    /\ {seqs[i] : i \in 1..Len(seqs)}
         = 1..Max({Cardinality(GroupOf(X)) : X \in {l.catID : l \in flow}})

(* a catchment with two starting lines beside one with a single line *)
C26_Witness ==
  /\ pc = "Loop"
  /\ \E X, Y \in {l.catID : l \in flow} :
       /\ Cardinality(GroupOf(X)) > 1
       /\ Cardinality(GroupOf(Y)) = 1

(* the passes of the loops of lines 277-288 *)
LoopPasses == {<<vpu[i], seqs[j]>> : i \in 1..Len(vpu), j \in 1..Len(seqs)}

(* the passes in which the starting line l is among the pour points *)
PassesOf(l) ==
  {x \in LoopPasses :
     l \in flow_lyr(flow, msk(cat(catch_full[ki].rows, flow), x[1]), x[2])}

(* C27: every starting line is a pour point of exactly one pass, that of   *)
(* the tile of its catchment and of its seqID; the passes that have pour   *)
(* points are the ones that run Watershed, each writes a dataset of its    *)
(* own, and out_subCat is the union of these datasets.                     *)
C27_OnePassPerPourPoint ==
  /\ pc = "Loop" =>
       /\ \A l \in flow :
            /\ Cardinality(PassesOf(l)) = 1
            /\ \A x \in PassesOf(l) :
                 /\ x[2] = l.seqID
                 /\ \E c \in Catchment : c.NHDPlusID = l.catID /\ c.VPUID = x[1]
       /\ \A i, j \in 1..Len(ls_sub) : ls_sub[i] = ls_sub[j] => i = j
       /\ \A i \in 1..Len(ls_sub) : ls_sub[i] \in UNION {PassesOf(l) : l \in flow}
       /\ vi > Len(vpu) =>
            {ls_sub[i] : i \in 1..Len(ls_sub)} = UNION {PassesOf(l) : l \in flow}
  /\ (pc = "Replace" /\ ls_sub # <<>>) =>
       out_subCat.rows = UNION {catSub[ls_sub[i]] : i \in 1..Len(ls_sub)}

(* a row of out_subCat exists for the (ptid_join, catID) pair of row r *)
InSubCat(r) == \E b \in out_subCat.rows : b.ptid = r.ptid /\ b.catID = r.catID

C30_NetworkLicenceBalanced ==
  pc \in {"main", "exit", "error"} => ~Network

=============================================================================
